---- MODULE Spec2Model ----
(***************************************************************************)
(* Model of mnist_reader (src/src/lib.rs): the MNIST archive fetcher, the  *)
(* gzip reader, the two IDX decoders and the load orchestration of         *)
(* MnistReader.                                                            *)
(***************************************************************************)
EXTENDS Integers, Sequences, FiniteSets, TLC

VARIABLES
    raw_bytes,      \* decoder input: a decompressed archive (Vec<u8>)
    images_result,  \* outcome of decoding raw_bytes as an image archive
    labels_result,  \* outcome of decoding raw_bytes as a label archive
    avail_bytes,    \* MiB the allocator could grant when raw_bytes was decoded
    dir_exists,     \* save_dir exists
    disk,           \* save_dir/<file> for each of the four archive names
    train_labels,   \* MnistReader.train_labels
    train_data,     \* MnistReader.train_data
    test_labels,    \* MnistReader.test_labels
    test_data,      \* MnistReader.test_data
    pc,             \* position in the running call, "idle" between calls,
                    \* "aborted" once the process has aborted
    file_idx,       \* index (1..4) of the file the loop of download_files is at
    op,             \* the entry point of the running / last call
    ret,            \* what the last call ended with: "none" (running), "Ok", "Err",
                    \* "Panic", "Abort"
    fail_kind,      \* the failure that ended the last call
    fail_step,      \* the step it happened in: "fetch", "train", "test", "ungzip"
    fail_file,      \* the file download_files failed at
    gets,           \* files an HTTP GET was issued for, in this call
    skipped,        \* files found present by the existence check, in this call
    reads,          \* files handed to read_gzip, in this call
    phases,         \* the steps of this call that completed, in order
    pre,            \* the four collections when this call started
    start_missing,  \* files absent when this call started
    prev_fail_file, \* file the previous call failed at (transport / status), or ""
    fetch_oks,      \* download_files calls that returned Ok since the last ungzip,
                    \* saturating at 2
    fetched_before, \* fetch_oks >= 1 when this call started
    disk_first_ok,  \* disk when download_files first returned Ok
    first_load,     \* the four collections after the first load that returned Ok
    loaded_from,    \* per split, the two files its collections were last decoded from
    ungzips         \* calls of ungzip so far

dvars == <<raw_bytes, images_result, labels_result, avail_bytes>>
fsvars == <<dir_exists, disk>>
cvars == <<train_labels, train_data, test_labels, test_data>>
ctlvars == <<pc, file_idx, op, ret, fail_kind, fail_step, fail_file>>
hvars == <<gets, skipped, reads, phases, pre, start_missing, prev_fail_file,
           fetch_oks, fetched_before, disk_first_ok, first_load, loaded_from,
           ungzips>>
vars == <<dvars, fsvars, cvars, ctlvars, hvars>>

\* ------------------------------------------------------------------ results
\* io::Result<T> of a function, or the panic that unwinds out of it.
\* kind names the failure: "read" (File::open / read), "gzip" (GzDecoder),
\* "oob" (slice index out of range).
Ok(v) == [tag |-> "Ok", val |-> v, kind |-> "none"]
Err(k) == [tag |-> "Err", val |-> <<>>, kind |-> k]
Panic(k) == [tag |-> "Panic", val |-> <<>>, kind |-> k]
\* the process aborted (handle_alloc_error): nothing unwinds, nothing returns
Abort == [tag |-> "Abort", val |-> <<>>, kind |-> "alloc"]
NotRun == [tag |-> "NotRun", val |-> <<>>, kind |-> "none"]

\* ------------------------------------------------------------------ f32
\* An f32 is represented by its IEEE-754 bit pattern (f32::to_bits).  For the
\* non-negative finite values that occur here the bit patterns are ordered
\* like the values.
F32_MANT_BITS == 23
F32_EXP_BIAS == 127

\* Scale n by powers of two until 255 <= n < 510, counting the shifts.
RECURSIVE NormalizeTo255(_, _)
NormalizeTo255(n, s) == IF n >= 255 THEN <<n, s>> ELSE NormalizeTo255(2 * n, s + 1)

\* Binary long division by 255: k more quotient bits of r / 255, appended to m.
RECURSIVE LongDiv255(_, _, _)
LongDiv255(r, m, k) ==
    IF k = 0 THEN <<m, r>>
    ELSE IF 2 * r >= 255 THEN LongDiv255(2 * r - 255, 2 * m + 1, k - 1)
                         ELSE LongDiv255(2 * r, 2 * m, k - 1)

\* the quotient with its low bits cut off instead of rounded
F32DivBy255Truncating(b) ==
    IF b = 0 THEN 0
    ELSE LET ns == NormalizeTo255(b, 0)
             qr == LongDiv255(ns[1] - 255, 1, F32_MANT_BITS)
         IN (F32_EXP_BIAS - ns[2]) * 2 ^ F32_MANT_BITS + (qr[1] - 2 ^ F32_MANT_BITS)

\* `b as f32 / 255.0` for a u8 b: the correctly rounded (nearest, ties to
\* even) single-precision quotient, as a bit pattern.
F32DivBy255(b) ==
    IF b = 0 THEN 0
    ELSE LET ns == NormalizeTo255(b, 0)
             n == ns[1]
             s == ns[2]
             qr == LongDiv255(n - 255, 1, F32_MANT_BITS)
             m0 == qr[1]
             r == qr[2]
             up == (2 * r > 255) \/ (2 * r = 255 /\ m0 % 2 = 1)
             m1 == IF up THEN m0 + 1 ELSE m0
             carry == IF m1 = 2 ^ (F32_MANT_BITS + 1) THEN 1 ELSE 0
             m == IF carry = 1 THEN 2 ^ F32_MANT_BITS ELSE m1
         IN (F32_EXP_BIAS - s + carry) * 2 ^ F32_MANT_BITS + (m - 2 ^ F32_MANT_BITS)

\* ------------------------------------------------------------------ decoders
\* buf[a..] of Rust, on a 1-based TLA+ sequence.
SliceFrom(buf, a) == SubSeq(buf, a + 1, Len(buf))
\* buf[a..b]
Slice(buf, a, b) == SubSeq(buf, a + 1, b)

\* u32::from_be_bytes(buf[off..off+4]) as usize
from_be_bytes(buf, off) ==
    buf[off + 1] * 16777216 + buf[off + 2] * 65536 + buf[off + 3] * 256 + buf[off + 4]

\* the labels cut to the count field of the header
DecodeLabelsCounted(data) ==
    IF Len(data) < 8 THEN Panic("oob")
    ELSE IF from_be_bytes(data, 4) > Len(data) - 8 THEN Panic("oob")
    ELSE Ok(Slice(data, 8, 8 + from_be_bytes(data, 4)))

\* lines 151-152 of read_mnist_labels, on the decompressed bytes
DecodeLabels(data) ==
    IF Len(data) < 8 THEN Panic("oob") ELSE Ok(SliceFrom(data, 8))

\* The Vec<Vec<f32>> that read_mnist_images builds.  Every image is made
\* from a slice of image_size bytes (line 171), so the vector is its number of
\* images, the number of pixels of each, and the pixels of all images in
\* order; image i (from 1) is px[(i-1)*size + 1 .. i*size].  A vector without
\* images has no pixel size.
Images(n, size, px) == [len |-> n, size |-> IF n = 0 THEN 0 ELSE size, px |-> px]
\* Vec::new()
NoImages == Images(0, 0, <<>>)
ImageAt(v, i) == SubSeq(v.px, (i - 1) * v.size + 1, i * v.size)

\* the loop of read_mnist_images (lines 168-176): iteration i slices
\* images_raw[i*image_size .. (i+1)*image_size] and panics when the slice ends
\* past the buffer (a slice of no bytes never does); the iterations that ran
\* before a panic leave nothing behind, so the loop's outcome is a panic as
\* soon as one iteration panics.  Else pixel j of image i is the quotient of
\* byte i*image_size + j, which is byte k of images_raw for pixel k of all.
ImagesLoop(images_raw, num_images, image_size) ==
    IF image_size > 0 /\ \E i \in 0..(num_images - 1) :
                            LET start == i * image_size
                                end == start + image_size
                            IN end > Len(images_raw)
    THEN Panic("oob")
    ELSE Ok(Images(num_images, image_size,
                   [k \in 1..(num_images * image_size) |-> F32DivBy255(images_raw[k])]))

\* size_of::<Vec<f32>>() on a 64-bit target: what one element of `images` takes
ELEM_SIZE == 24
\* bytes in a MiB, the unit in which the allocator's grant is counted
MIB == 2 ^ 20
\* Vec::with_capacity(num_images) (line 165) returns: nothing is allocated
\* for a capacity of 0, else num_images * ELEM_SIZE bytes are asked of the
\* allocator, which can grant avail MiB; when it cannot the process aborts.
\* The test is num_images * ELEM_SIZE <= avail * MIB, by division.
with_capacity_ok(num_images, avail) ==
    \/ num_images = 0
    \/ num_images <= (avail \div ELEM_SIZE) * MIB + ((avail % ELEM_SIZE) * MIB) \div ELEM_SIZE

\* lines 160-177 of read_mnist_images, on the decompressed bytes, the
\* allocator being able to grant avail MiB
DecodeImages(raw, avail) ==
    IF Len(raw) < 8 THEN Panic("oob")          \* raw_bytes[4..8]
    ELSE IF Len(raw) < 12 THEN Panic("oob")    \* raw_bytes[8..12]
    ELSE IF Len(raw) < 16 THEN Panic("oob")    \* raw_bytes[12..16]
    ELSE LET num_images == from_be_bytes(raw, 4)
             num_rows == from_be_bytes(raw, 8)
             num_cols == from_be_bytes(raw, 12)
             image_size == num_rows * num_cols
             images_raw == SliceFrom(raw, 16)
         IN IF ~with_capacity_ok(num_images, avail) THEN Abort
            ELSE ImagesLoop(images_raw, num_images, image_size)

\* ------------------------------------------------------------------ decoder inputs
MaxPayload == 4
PixelBytes == {0, 64, 128, 255}
\* the 32-bit header fields tried, as their four big-endian bytes
CountBytes == {<<0, 0, 0, 0>>, <<0, 0, 0, 1>>, <<0, 0, 0, 2>>, <<0, 0, 0, 3>>, <<0, 0, 1, 0>>,
               <<64, 0, 0, 0>>}
\* what the allocator can grant, in MiB: 16 GiB, which refuses the 24 GiB
\* that 2^30 images ask for, and 24 GiB, which grants them
AvailBytes == {16384, 24576}
DimBytes == {<<0, 0, 0, 0>>, <<0, 0, 0, 1>>, <<0, 0, 0, 2>>, <<0, 0, 1, 0>>}
MagicBytes == {<<0, 0, 8, 3>>, <<0, 0, 8, 1>>}

RECURSIVE SeqsUpTo(_, _)
SeqsUpTo(S, n) ==
    IF n = 0 THEN {<<>>}
    ELSE LET shorter == SeqsUpTo(S, n - 1)
         IN shorter \cup {Append(s, x) : s \in {t \in shorter : Len(t) = n - 1}, x \in S}

Headers == {m \o c \o r \o k : m \in MagicBytes, c \in CountBytes, r \in DimBytes, k \in DimBytes}
\* whole archives, and archives cut inside the header
Buffers ==
    {h \o p : h \in Headers, p \in SeqsUpTo(PixelBytes, MaxPayload)}
    \cup {SubSeq(h, 1, n) : h \in Headers, n \in 0..15}

\* ------------------------------------------------------------------ files
\* the array `files` of download_files, in its order (lines 68-73)
files == <<"train-images-idx3-ubyte.gz", "train-labels-idx1-ubyte.gz",
           "t10k-images-idx3-ubyte.gz", "t10k-labels-idx1-ubyte.gz">>
FileNames == {files[i] : i \in 1..4}

\* label_file / image_file of load_data (lines 98-100)
type_str(is_train) == IF is_train THEN "train" ELSE "t10k"
label_file(is_train) == type_str(is_train) \o "-labels-idx1-ubyte.gz"
image_file(is_train) == type_str(is_train) \o "-images-idx3-ubyte.gz"

\* A file of save_dir: absent, or present holding either a complete gzip
\* stream of `bytes` (valid) or something GzDecoder rejects: a truncated
\* stream, as an interrupted io::copy leaves, or garbage.
Absent == [exists |-> FALSE, valid |-> FALSE, bytes |-> <<>>]
Corrupt == [exists |-> TRUE, valid |-> FALSE, bytes |-> <<>>]
Gz(b) == [exists |-> TRUE, valid |-> TRUE, bytes |-> b]

\* an existence check that also wants a complete gzip stream
PathExistsIfValid(d, f) == d[f].exists /\ d[f].valid
\* Path::new(&out_path).exists() (line 77)
PathExists(d, f) == d[f].exists

\* read_gzip (lines 138-144); io_ok: File::open and the reads succeed
read_gzip(d, f, io_ok) ==
    IF ~d[f].exists \/ ~io_ok THEN Err("read")
    ELSE IF ~d[f].valid THEN Err("gzip")
    ELSE Ok(d[f].bytes)

\* read_mnist_labels (lines 148-153)
read_mnist_labels(d, f, io_ok) ==
    LET data == read_gzip(d, f, io_ok)
    IN IF data.tag = "Err" THEN data ELSE DecodeLabels(data.val)

\* read_mnist_images (lines 156-178)
read_mnist_images(d, f, io_ok, avail) ==
    LET raw == read_gzip(d, f, io_ok)
    IN IF raw.tag = "Err" THEN raw ELSE DecodeImages(raw.val, avail)

\* ------------------------------------------------------------------ download_file
\* What the GET of one file can meet: no response (transport error, or an
\* error status that ureq reports as an error), a response whose status is
\* not 200, File::create failing, io::copy failing after the file was
\* created, or the whole body written.  body is the file that the bytes
\* io::copy wrote make at the target path: after a failed copy any part of
\* the body, which can be all of it (the connection closed before the
\* announced length was reached).
Resp(kind, body) == [kind |-> kind, body |-> body]

\* a download that creates the file before it looks at the status
download_fileCreateFirst(d, f, resp) ==
    IF resp.kind = "transport" THEN [disk |-> d, res |-> Err("transport")]
    ELSE IF resp.kind = "create" THEN [disk |-> d, res |-> Err("create")]
    ELSE IF resp.kind = "status" THEN [disk |-> [d EXCEPT ![f] = Corrupt], res |-> Err("status")]
    ELSE IF resp.kind = "copy" THEN [disk |-> [d EXCEPT ![f] = resp.body], res |-> Err("copy")]
    ELSE [disk |-> [d EXCEPT ![f] = resp.body], res |-> Ok(<<>>)]

\* download_file (lines 116-125)
download_file(d, f, resp) ==
    IF resp.kind = "transport" THEN [disk |-> d, res |-> Err("transport")]
    ELSE IF resp.kind = "status" THEN [disk |-> d, res |-> Err("status")]
    ELSE IF resp.kind = "create" THEN [disk |-> d, res |-> Err("create")]
    ELSE IF resp.kind = "copy" THEN [disk |-> [d EXCEPT ![f] = resp.body], res |-> Err("copy")]
    ELSE [disk |-> [d EXCEPT ![f] = resp.body], res |-> Ok(<<>>)]

\* ------------------------------------------------------------------ load_data
Container(tl, td, sl, sd) ==
    [train_labels |-> tl, train_data |-> td, test_labels |-> sl, test_data |-> sd]
Self == Container(train_labels, train_data, test_labels, test_data)
\* MnistReader::new (lines 53-62)
new == Container(<<>>, NoImages, <<>>, NoImages)

Assign(c, is_train, labels, images) ==
    IF is_train THEN [c EXCEPT !.train_labels = labels, !.train_data = images]
    ELSE [c EXCEPT !.test_labels = labels, !.test_data = images]

\* only the labels of the split assigned
AssignLabels(c, is_train, labels) ==
    IF is_train THEN [c EXCEPT !.train_labels = labels]
    ELSE [c EXCEPT !.test_labels = labels]

\* a load_data that assigns the labels before it reads the images
load_dataLabelsFirst(c, d, is_train, lbl_io, img_io, avail) ==
    LET labels == read_mnist_labels(d, label_file(is_train), lbl_io)
        images == read_mnist_images(d, image_file(is_train), img_io, avail)
    IN IF labels.tag # "Ok"
       THEN [res |-> Panic(labels.kind), self |-> c, read |-> <<label_file(is_train)>>]
       ELSE IF images.tag = "Abort"
       THEN [res |-> Abort, self |-> AssignLabels(c, is_train, labels.val),
             read |-> <<label_file(is_train), image_file(is_train)>>]
       ELSE IF images.tag # "Ok"
       THEN [res |-> Panic(images.kind), self |-> AssignLabels(c, is_train, labels.val),
             read |-> <<label_file(is_train), image_file(is_train)>>]
       ELSE [res |-> Ok(<<>>), self |-> Assign(c, is_train, labels.val, images.val),
             read |-> <<label_file(is_train), image_file(is_train)>>]

\* a load_data that forgets to assign the images
load_dataLabelsOnly(c, d, is_train, lbl_io, img_io, avail) ==
    LET labels == read_mnist_labels(d, label_file(is_train), lbl_io)
        images == read_mnist_images(d, image_file(is_train), img_io, avail)
    IN IF labels.tag # "Ok"
       THEN [res |-> Panic(labels.kind), self |-> c, read |-> <<label_file(is_train)>>]
       ELSE IF images.tag = "Abort"
       THEN [res |-> Abort, self |-> c,
             read |-> <<label_file(is_train), image_file(is_train)>>]
       ELSE IF images.tag # "Ok"
       THEN [res |-> Panic(images.kind), self |-> c,
             read |-> <<label_file(is_train), image_file(is_train)>>]
       ELSE [res |-> Ok(<<>>), self |-> AssignLabels(c, is_train, labels.val),
             read |-> <<label_file(is_train), image_file(is_train)>>]

\* load_data (lines 97-111) on the container c: the labels are read and
\* unwrapped, then the images; an Err of either reader, like a panic inside
\* it, unwinds out of load_data before anything is assigned; an allocation
\* that fails in read_mnist_images aborts the process.
load_data(c, d, is_train, lbl_io, img_io, avail) ==
    LET labels == read_mnist_labels(d, label_file(is_train), lbl_io)
        images == read_mnist_images(d, image_file(is_train), img_io, avail)
    IN IF labels.tag # "Ok"
       THEN [res |-> Panic(labels.kind), self |-> c, read |-> <<label_file(is_train)>>]
       ELSE IF images.tag = "Abort"
       THEN [res |-> Abort, self |-> c,
             read |-> <<label_file(is_train), image_file(is_train)>>]
       ELSE IF images.tag # "Ok"
       THEN [res |-> Panic(images.kind), self |-> c,
             read |-> <<label_file(is_train), image_file(is_train)>>]
       ELSE [res |-> Ok(<<>>), self |-> Assign(c, is_train, labels.val, images.val),
             read |-> <<label_file(is_train), image_file(is_train)>>]

\* ------------------------------------------------------------------ archives served
Header8 == <<0, 0, 8, 1, 0, 0, 0, 2>>
Header16(c, r, k) == <<0, 0, 8, 3>> \o <<0, 0, 0, c>> \o <<0, 0, 0, r>> \o <<0, 0, 0, k>>
\* decompressed label archives: two labels, one label, cut inside the header
LabelBodies == {Header8 \o <<5, 0>>, Header8 \o <<9>>, <<0, 0, 8, 1>>}
\* decompressed image archives: two 1x2 images, the same with the last byte
\* missing, and a header that announces 2^30 1x1 images
ImageBodies == {Header16(2, 1, 2) \o <<0, 255, 128, 64>>,
                Header16(2, 1, 2) \o <<0, 255, 128>>,
                <<0, 0, 8, 3, 64, 0, 0, 0, 0, 0, 0, 1, 0, 0, 0, 1>>}
IsImageFile(f) == f \in {image_file(TRUE), image_file(FALSE)}
\* what the bytes written from a 200 response can leave in save_dir/f
Served(f) == {Corrupt} \cup {Gz(b) : b \in IF IsImageFile(f) THEN ImageBodies ELSE LabelBodies}
Responses(f) ==
    {Resp(k, Absent) : k \in {"transport", "status", "create"}}
    \cup {Resp(k, c) : k \in {"copy", "ok"}, c \in Served(f)}

\* ------------------------------------------------------------------ state machine
DecodeIdle ==
    /\ raw_bytes = <<>>
    /\ images_result = NotRun
    /\ labels_result = NotRun
    /\ avail_bytes = 0

NoFiles == [lbl |-> Absent, img |-> Absent]

Init ==
    /\ DecodeIdle
    /\ dir_exists \in BOOLEAN
    /\ disk \in [FileNames -> {Absent, Corrupt} \cup {Gz(b) : b \in ImageBodies \cup LabelBodies}]
    /\ \A f \in FileNames : disk[f] \in {Absent} \cup Served(f)
    /\ ~dir_exists => \A f \in FileNames : disk[f] = Absent
    /\ train_labels = new.train_labels
    /\ train_data = new.train_data
    /\ test_labels = new.test_labels
    /\ test_data = new.test_data
    /\ pc = "idle"
    /\ file_idx = 0
    /\ op = "none"
    /\ ret = "none"
    /\ fail_kind = "none"
    /\ fail_step = "none"
    /\ fail_file = ""
    /\ gets = <<>>
    /\ skipped = {}
    /\ reads = <<>>
    /\ phases = <<>>
    /\ pre = new
    /\ start_missing = {}
    /\ prev_fail_file = ""
    /\ fetch_oks = 0
    /\ fetched_before = FALSE
    /\ disk_first_ok = disk
    /\ first_load = new
    /\ loaded_from = [t \in BOOLEAN |-> NoFiles]
    /\ ungzips = 0

\* a caller enters `entry`: the per-call records start afresh
Call(entry) ==
    /\ pc = "idle"
    /\ pc' = "create_dir"
    /\ op' = entry
    /\ ret' = "none"
    /\ file_idx' = 0
    /\ fail_kind' = "none"
    /\ fail_step' = "none"
    /\ fail_file' = ""
    /\ gets' = <<>>
    /\ skipped' = {}
    /\ reads' = <<>>
    /\ phases' = <<>>
    /\ pre' = Self
    /\ start_missing' = {f \in FileNames : ~disk[f].exists}
    /\ prev_fail_file' = IF ret = "Err" /\ fail_kind \in {"transport", "status"}
                         THEN fail_file ELSE ""
    /\ fetched_before' = (fetch_oks >= 1)
    /\ UNCHANGED <<dvars, fsvars, cvars, fetch_oks, disk_first_ok, first_load, loaded_from,
                   ungzips>>

\* MnistReader::load (line 87)
CallLoad == Call("load")

\* MnistReader::download_files called on its own (line 64)
CallDownloadFiles == Call("download_files")

\* the call ends with an error or a panic at `step` (back = "idle": the
\* caller goes on), or the process with an abort (back = "aborted")
Fail(r, kind, step, f, back) ==
    /\ pc' = back
    /\ ret' = r
    /\ fail_kind' = kind
    /\ fail_step' = step
    /\ fail_file' = f
    /\ file_idx' = 0

\* fs::create_dir_all(save_dir)? (line 66) succeeds
CreateDirOk ==
    /\ pc = "create_dir"
    /\ dir_exists' = TRUE
    /\ pc' = "files_loop"
    /\ file_idx' = 1
    /\ UNCHANGED <<dvars, disk, cvars, op, ret, fail_kind, fail_step, fail_file, hvars>>

\* fs::create_dir_all(save_dir)? (line 66) fails: the directory is not there
\* and cannot be made
CreateDirErr ==
    /\ pc = "create_dir"
    /\ ~dir_exists
    /\ Fail("Err", "create_dir", "fetch", "", "idle")
    /\ UNCHANGED <<dvars, fsvars, cvars, op, hvars>>

\* a load that goes from download_files straight to the test split
AfterFetchSkipTrain(entry) == IF entry = "load" THEN "load_test" ELSE "idle"
\* where a call goes once download_files has returned Ok (lines 84, 89-91)
AfterFetch(entry) == IF entry = "load" THEN "load_train" ELSE "idle"

\* the loop of download_files moves past files[file_idx] (lines 74, 83-84)
Advance(d) ==
    IF file_idx < 4
    THEN /\ file_idx' = file_idx + 1
         /\ pc' = "files_loop"
         /\ UNCHANGED <<ret, phases, fetch_oks, disk_first_ok>>
    ELSE /\ file_idx' = 0
         /\ pc' = AfterFetch(op)
         /\ ret' = IF AfterFetch(op) = "idle" THEN "Ok" ELSE ret
         /\ phases' = Append(phases, "download_files")
         /\ fetch_oks' = IF fetch_oks < 2 THEN fetch_oks + 1 ELSE fetch_oks
         /\ disk_first_ok' = IF fetch_oks = 0 THEN d ELSE disk_first_ok

\* the file is there: "File: ..." (lines 77, 80-82)
SkipExisting ==
    /\ pc = "files_loop"
    /\ PathExists(disk, files[file_idx])
    /\ skipped' = skipped \cup {files[file_idx]}
    /\ Advance(disk)
    /\ UNCHANGED <<dvars, fsvars, cvars, op, fail_kind, fail_step, fail_file,
                   gets, reads, pre, start_missing, prev_fail_file, fetched_before,
                   first_load, loaded_from, ungzips>>

\* the file is not there: download_file(&url, &out_path)? (lines 77-79)
Download ==
    /\ pc = "files_loop"
    /\ ~PathExists(disk, files[file_idx])
    /\ \E resp \in Responses(files[file_idx]) :
          LET f == files[file_idx]
              out == download_file(disk, f, resp)
          IN /\ gets' = Append(gets, f)
             /\ disk' = out.disk
             /\ IF out.res.tag = "Ok"
                THEN /\ Advance(out.disk)
                     /\ UNCHANGED <<fail_kind, fail_step, fail_file>>
                ELSE /\ Fail("Err", out.res.kind, "fetch", f, "idle")
                     /\ UNCHANGED <<phases, fetch_oks, disk_first_ok>>
    /\ UNCHANGED <<dvars, dir_exists, cvars, op, skipped, reads, pre, start_missing,
                   prev_fail_file, fetched_before, first_load, loaded_from, ungzips>>

\* self.load_data(is_train)? (lines 91-92)
LoadData(is_train) ==
    /\ pc = IF is_train THEN "load_train" ELSE "load_test"
    /\ \E lbl_io \in BOOLEAN, img_io \in BOOLEAN, avail \in AvailBytes :
          LET out == load_data(Self, disk, is_train, lbl_io, img_io, avail)
          IN /\ train_labels' = out.self.train_labels
             /\ train_data' = out.self.train_data
             /\ test_labels' = out.self.test_labels
             /\ test_data' = out.self.test_data
             /\ reads' = reads \o out.read
             /\ IF out.res.tag = "Ok"
                THEN /\ phases' = Append(phases, IF is_train THEN "load_data(true)"
                                                 ELSE "load_data(false)")
                     /\ pc' = IF is_train THEN "load_test" ELSE "idle"
                     /\ ret' = IF is_train THEN ret ELSE "Ok"
                     /\ first_load' = IF ~is_train /\ first_load = new
                                      THEN out.self ELSE first_load
                     /\ loaded_from' = [loaded_from EXCEPT ![is_train] =
                                           [lbl |-> disk[label_file(is_train)],
                                            img |-> disk[image_file(is_train)]]]
                     /\ UNCHANGED <<file_idx, fail_kind, fail_step, fail_file>>
                ELSE /\ Fail(out.res.tag, out.res.kind,
                             IF is_train THEN "train" ELSE "test", "",
                             IF out.res.tag = "Abort" THEN "aborted" ELSE "idle")
                     /\ UNCHANGED <<phases, first_load, loaded_from>>
    /\ UNCHANGED <<dvars, fsvars, op, gets, skipped, pre, start_missing,
                   prev_fail_file, fetch_oks, fetched_before, disk_first_ok, ungzips>>

LoadTrain == LoadData(TRUE)
LoadTest == LoadData(FALSE)

\* a path that is none of the four archives of save_dir
OtherPath == "other"
\* what the file at OtherPath can be: absent, no gzip stream, or a gzip stream
OtherFiles == {Absent, Corrupt, Gz(<<>>)}
MaxUngzips == 1

\* ungzip (lines 129-135) on the files d, from in_path to the archive
\* out_path; dir: save_dir exists.  src is the input file; written is the
\* file that the bytes io::copy wrote make at out_path; env names the step
\* the environment fails, if any.  File::open fails on a missing input;
\* File::create fails without save_dir and else empties out_path (and with it
\* the input, when the two are one file); io::copy fails where the decoder
\* rejects the input or the environment fails it, and leaves what it wrote.
ungzip(d, dir, in_path, out_path, src, written, env) ==
    IF ~src.exists \/ env = "open" THEN [disk |-> d, res |-> Err("read")]
    ELSE IF ~dir \/ env = "create" THEN [disk |-> d, res |-> Err("create")]
    ELSE IF in_path = out_path
    THEN [disk |-> [d EXCEPT ![out_path] = Corrupt], res |-> Err("gzip")]
    ELSE IF ~src.valid
    THEN [disk |-> [d EXCEPT ![out_path] = written], res |-> Err("gzip")]
    ELSE IF env = "copy" THEN [disk |-> [d EXCEPT ![out_path] = written], res |-> Err("copy")]
    ELSE [disk |-> [d EXCEPT ![out_path] = written], res |-> Ok(<<>>)]

\* the files that the bytes written by ungzip can make at out_path.  The
\* decompressed bytes of a complete archive of save_dir are an IDX buffer,
\* which is no gzip stream, like every part of it.  An input that the
\* decoder rejects was decompressed up to the fault (a stream cut inside its
\* trailer gives its whole payload), and the payload of a file that is no
\* archive of save_dir can be anything, an archive included.
Written(in_path, out_path, src) ==
    IF in_path = out_path \/ (in_path \in FileNames /\ src.valid)
    THEN {Corrupt} ELSE Served(out_path)

\* every outcome ungzip can have on the files d, over its two paths, the
\* file at OtherPath and the environment
UngzipOutcomes(d, dir) ==
    UNION {UNION {{ungzip(d, dir, in_path, out_path, src, written, env) :
                      written \in Written(in_path, out_path, src)} :
                  src \in IF in_path \in FileNames THEN {d[in_path]} ELSE OtherFiles} :
           in_path \in FileNames \cup {OtherPath}, out_path \in FileNames,
           env \in {"none", "open", "create", "copy"}}

\* a caller runs the public ungzip between two calls, onto an archive of
\* save_dir (an ungzip onto another path changes nothing that is modelled).
\* The records kept per call and since the files were last written start
\* afresh.
Ungzip ==
    /\ pc = "idle"
    /\ ungzips < MaxUngzips
    /\ ungzips' = ungzips + 1
    /\ \E out \in UngzipOutcomes(disk, dir_exists) :
          /\ disk' = out.disk
          /\ disk_first_ok' = out.disk
          /\ ret' = out.res.tag
          /\ fail_kind' = out.res.kind
          /\ fail_step' = IF out.res.tag = "Ok" THEN "none" ELSE "ungzip"
    /\ op' = "ungzip"
    /\ fail_file' = ""
    /\ gets' = <<>>
    /\ skipped' = {}
    /\ reads' = <<>>
    /\ phases' = <<>>
    /\ pre' = Self
    /\ start_missing' = {}
    /\ prev_fail_file' = ""
    /\ fetch_oks' = 0
    /\ fetched_before' = FALSE
    /\ first_load' = new
    /\ UNCHANGED <<dvars, dir_exists, cvars, pc, file_idx, loaded_from>>

Next ==
    \/ CallLoad
    \/ CallDownloadFiles
    \/ CreateDirOk
    \/ CreateDirErr
    \/ SkipExisting
    \/ Download
    \/ LoadTrain
    \/ LoadTest
    \/ Ungzip

Spec == Init /\ [][Next]_vars

\* ------------------------------------------------------------------ decoder runs
MainIdle ==
    /\ dir_exists = FALSE
    /\ disk = [f \in FileNames |-> Absent]
    /\ train_labels = new.train_labels
    /\ train_data = new.train_data
    /\ test_labels = new.test_labels
    /\ test_data = new.test_data
    /\ pc = "idle"
    /\ file_idx = 0
    /\ op = "none"
    /\ ret = "none"
    /\ fail_kind = "none"
    /\ fail_step = "none"
    /\ fail_file = ""
    /\ gets = <<>>
    /\ skipped = {}
    /\ reads = <<>>
    /\ phases = <<>>
    /\ pre = new
    /\ start_missing = {}
    /\ prev_fail_file = ""
    /\ fetch_oks = 0
    /\ fetched_before = FALSE
    /\ disk_first_ok = disk
    /\ first_load = new
    /\ loaded_from = [t \in BOOLEAN |-> NoFiles]
    /\ ungzips = 0

mvars == <<fsvars, cvars, ctlvars, hvars>>

InitDecode ==
    /\ raw_bytes \in Buffers
    /\ images_result = NotRun
    /\ labels_result = NotRun
    /\ avail_bytes = 0
    /\ MainIdle

\* DecodeImages applied to the buffer, with what the allocator can grant
ReadImages ==
    /\ images_result.tag = "NotRun"
    /\ \E avail \in AvailBytes :
          /\ avail_bytes' = avail
          /\ images_result' = DecodeImages(raw_bytes, avail)
    /\ UNCHANGED <<raw_bytes, labels_result, mvars>>

\* DecodeLabels applied to the buffer
ReadLabels ==
    /\ labels_result.tag = "NotRun"
    /\ labels_result' = DecodeLabels(raw_bytes)
    /\ UNCHANGED <<raw_bytes, images_result, avail_bytes, mvars>>

NextDecode == ReadImages \/ ReadLabels

SpecDecode == InitDecode /\ [][NextDecode]_vars
\* ------------------------------------------------------------------ properties of the decoders
\* the big-endian 32-bit field at byte offset off of a buffer
HeaderField(buf, off) ==
    ((buf[off + 1] * 256 + buf[off + 2]) * 256 + buf[off + 3]) * 256 + buf[off + 4]
CountOf(buf) == HeaderField(buf, 4)
ImageSizeOf(buf) == HeaderField(buf, 8) * HeaderField(buf, 12)
\* 16 + count*rows*cols
FullLength(buf) == 16 + CountOf(buf) * ImageSizeOf(buf)
\* Len(buf) >= 16 + count*rows*cols, by division
LongEnough(buf) ==
    /\ Len(buf) >= 16
    /\ \/ CountOf(buf) = 0
       \/ ImageSizeOf(buf) = 0
       \/ CountOf(buf) <= (Len(buf) - 16) \div ImageSizeOf(buf)
\* Len(buf) = 16 + count*rows*cols, by division
ExactLength(buf) ==
    /\ Len(buf) >= 16
    /\ IF CountOf(buf) = 0 \/ ImageSizeOf(buf) = 0 THEN Len(buf) = 16
       ELSE /\ (Len(buf) - 16) % ImageSizeOf(buf) = 0
            /\ (Len(buf) - 16) \div ImageSizeOf(buf) = CountOf(buf)
\* the vector of count images can be allocated: count elements of 24 bytes
\* each, none for a count of 0
Allocatable(buf, avail) == with_capacity_ok(CountOf(buf), avail)

\* the bit pattern of 1.0f32
F32_ONE == F32_EXP_BIAS * 2 ^ F32_MANT_BITS
\* 2^23 = 255 * F32_Q + F32_R
F32_Q == (2 ^ F32_MANT_BITS) \div 255
F32_R == (2 ^ F32_MANT_BITS) % 255
Abs(x) == IF x < 0 THEN -x ELSE x

\* bits is the f32 nearest to b / 255.  For b > 0 write the f32 as
\* m * 2^(-23-s) with 2^23 <= m < 2^24; it is the nearest one to b/255 iff
\* |255*m - b*2^s*2^23| <= 127, and 255*m - n*2^23 = 255*(m - F32_Q*n) - F32_R*n.
IsQuotientBy255(bits, b) ==
    IF b = 0 THEN bits = 0
    ELSE \E s \in 0..8 :
            LET n == b * 2 ^ s
                m == 2 ^ 23 + (bits % 2 ^ 23)
            IN /\ bits \div 2 ^ 23 = 127 - s
               /\ 255 <= n /\ n < 510
               /\ Abs(255 * (m - F32_Q * n) - F32_R * n) <= 127

\* the buffer with its magic field zeroed and the bytes past
\* 16 + count*rows*cols dropped
Canonical(buf) == <<0, 0, 0, 0>> \o SubSeq(buf, 5, FullLength(buf))

\* what C3 says of the decoded images: pixel j of image i is pixel
\* i*rows*cols + j of all
ImagesAsClaimed ==
    /\ images_result.tag = "Ok"
    /\ images_result.val.len = CountOf(raw_bytes)
    /\ CountOf(raw_bytes) > 0 => images_result.val.size = ImageSizeOf(raw_bytes)
    /\ Len(images_result.val.px) = CountOf(raw_bytes) * ImageSizeOf(raw_bytes)
    /\ \A k \in 1..Len(images_result.val.px) :
          LET pixel == images_result.val.px[k]
              byte == raw_bytes[16 + k]
          IN /\ IsQuotientBy255(pixel, byte)
             /\ 0 <= pixel /\ pixel <= F32_ONE
    /\ images_result = DecodeImages(Canonical(raw_bytes), avail_bytes)

\* C3: decoding a buffer of at least 16 + count*rows*cols bytes returns count
\* images of rows*cols pixels each, pixel j of image i being the f32 quotient
\* byte[16 + i*rows*cols + j] / 255, within [0, 1]; the magic field and the
\* bytes past 16 + count*rows*cols do not change the result.
C3_ImagesDecodedAlways ==
    (images_result.tag # "NotRun" /\ LongEnough(raw_bytes)) => ImagesAsClaimed

\* where C3 fails it fails in Vec::with_capacity: a long enough buffer is
\* decoded as C3 says when the allocator grants the vector of count images,
\* and the process aborts when it does not
ImagesDecodedUnlessAborted ==
    (images_result.tag # "NotRun" /\ LongEnough(raw_bytes))
    => IF Allocatable(raw_bytes, avail_bytes)
       THEN ImagesAsClaimed
       ELSE images_result = Abort

\* two 1x1 images (128 and 255) decoded from a buffer that has a trailing
\* byte and the magic of a label archive
TwoImagesDecoded ==
    /\ images_result.tag = "Ok"
    /\ Len(raw_bytes) = 19
    /\ SubSeq(raw_bytes, 1, 4) = <<0, 0, 8, 1>>
    /\ SubSeq(raw_bytes, 17, 18) = <<128, 255>>
    /\ images_result.val = Images(2, 1, <<1056997505, F32_ONE>>)

\* 2^30 images without pixels decoded where the allocator granted the vector
EmptyImagesDecoded ==
    /\ images_result = Ok(Images(2 ^ 30, 0, <<>>))
    /\ with_capacity_ok(2 ^ 30, avail_bytes)

\* C4: decoding a label buffer of n >= 8 bytes returns its n - 8 bytes from
\* offset 8 on, in order and unchanged, whatever the header says and whatever
\* the values of the bytes; exactly 8 bytes give the empty collection.
C4_LabelsAreTail ==
    (labels_result.tag # "NotRun" /\ Len(raw_bytes) >= 8)
    => /\ labels_result.tag = "Ok"
       /\ Len(labels_result.val) = Len(raw_bytes) - 8
       /\ \A k \in 1..(Len(raw_bytes) - 8) : labels_result.val[k] = raw_bytes[8 + k]
       /\ (Len(raw_bytes) = 8 => labels_result.val = <<>>)

\* labels decoded from a buffer whose bytes 4..8 say 2 and which holds 12
\* bytes after offset 8, one of them 255
C4_Witness ==
    /\ labels_result.tag = "Ok"
    /\ Len(raw_bytes) = 20
    /\ HeaderField(raw_bytes, 4) = 2
    /\ Len(labels_result.val) = 12
    /\ labels_result.val[12] = 255

\* C6: a buffer of exactly 16 + count*rows*cols bytes decodes; a buffer
\* shorter than the 16-byte header or shorter than 16 + count*rows*cols ends
\* in an out-of-bounds panic and returns nothing.
C6_TruncationBoundary ==
    images_result.tag # "NotRun"
    => /\ ExactLength(raw_bytes) => images_result.tag = "Ok"
       /\ ~LongEnough(raw_bytes) => images_result = Panic("oob")
\* ------------------------------------------------------------------ properties of the fetch and load steps
AllFilesExist == \A f \in FileNames : disk[f].exists
Range(q) == {q[i] : i \in 1..Len(q)}
IsPrefix(p, q) == Len(p) <= Len(q) /\ SubSeq(q, 1, Len(p)) = p
\* the files of S in the order of download_files
InOrder(S) == SelectSeq(files, LAMBDA f : f \in S)
\* what the archives of one split on disk d decode to
DecodedLabels(d, is_train) == SubSeq(d[label_file(is_train)].bytes, 9, Len(d[label_file(is_train)].bytes))
MostAvail == CHOOSE a \in AvailBytes : \A b \in AvailBytes : b <= a
DecodedImages(d, is_train) == DecodeImages(d[image_file(is_train)].bytes, MostAvail).val
DecodedAll(d) == Container(DecodedLabels(d, TRUE), DecodedImages(d, TRUE),
                           DecodedLabels(d, FALSE), DecodedImages(d, FALSE))

\* C1: download_files issues a GET for a file exactly when the file is absent
\* at the moment the loop checks it (a present file, whatever it holds, is
\* skipped), no GET is issued outside the loop, and once download_files has
\* returned Ok all four files exist.
C1_GetIffAbsent ==
    /\ [][pc = "files_loop" =>
            /\ (gets' = Append(gets, files[file_idx])) <=> ~disk[files[file_idx]].exists
            /\ (gets' = gets) <=> disk[files[file_idx]].exists]_vars
    /\ [][pc # "files_loop" => (gets' = gets \/ gets' = <<>>)]_vars
    /\ [](phases # <<>> => AllFilesExist)

\* download_files returned Ok having fetched some files and skipped a present
\* file that is no gzip stream
C1_Witness ==
    /\ op = "download_files"
    /\ ret = "Ok"
    /\ gets # <<>>
    /\ \E f \in skipped : disk[f] = Corrupt

\* C2: once download_files has returned Ok, a later call issues no GET and
\* the files stay as they were, and every load that returns Ok ends with the
\* same four collections as the first one (a call of ungzip, which rewrites
\* an archive, starts the count afresh).
C2_SecondFetchIdempotent ==
    /\ fetch_oks >= 1 => disk = disk_first_ok
    /\ fetched_before => gets = <<>>
    /\ (op = "load" /\ ret = "Ok") => Self = first_load

\* a load that returned Ok in a call made after download_files had twice
\* returned Ok
C2_Witness ==
    /\ fetched_before
    /\ fetch_oks = 2
    /\ op = "load"
    /\ ret = "Ok"
    /\ Len(phases) = 3
    /\ disk = disk_first_ok
    /\ Self = first_load
    /\ train_labels # <<>>

\* the two files are both readable archives and the label archive holds a
\* number of labels other than the count field of the image archive
Mismatched(pair) ==
    /\ pair.lbl.valid /\ pair.img.valid
    /\ Len(pair.lbl.bytes) >= 8 /\ Len(pair.img.bytes) >= 16
    /\ Len(pair.lbl.bytes) - 8 # CountOf(pair.img.bytes)
OnDisk(d, is_train) == [lbl |-> d[label_file(is_train)], img |-> d[image_file(is_train)]]

\* C5 as stated: in every state the labels and the images of each split have
\* the same length, which after a load that returned Ok is the count field of
\* the split's image archive.
C5_SameLengthAlways ==
    /\ Len(train_labels) = train_data.len
    /\ Len(test_labels) = test_data.len
    /\ (op = "load" /\ ret = "Ok") =>
          /\ train_data.len = CountOf(disk[image_file(TRUE)].bytes)
          /\ test_data.len = CountOf(disk[image_file(FALSE)].bytes)

\* C5, amended: in every state the labels and the images of a split have the
\* same length unless the archives the split was last loaded from are a
\* mismatched pair; after a load that returned Ok the images of each split are
\* as many as the count field of its image archive and the labels as many as
\* the bytes of its label archive past the 8-byte header.
C5_SameLengthUnlessMismatched ==
    /\ Len(train_labels) = train_data.len \/ Mismatched(loaded_from[TRUE])
    /\ Len(test_labels) = test_data.len \/ Mismatched(loaded_from[FALSE])
    /\ (op = "load" /\ ret = "Ok") =>
          \A t \in BOOLEAN :
             LET c == Self
                 labels == IF t THEN c.train_labels ELSE c.test_labels
                 data == IF t THEN c.train_data ELSE c.test_data
             IN /\ loaded_from[t] = OnDisk(disk, t)
                /\ data.len = CountOf(disk[image_file(t)].bytes)
                /\ Len(labels) = Len(disk[label_file(t)].bytes) - 8

\* a load returned Ok on two well-formed pairs, of two labels and two images
C5_Witness ==
    /\ op = "load"
    /\ ret = "Ok"
    /\ ~Mismatched(OnDisk(disk, TRUE)) /\ ~Mismatched(OnDisk(disk, FALSE))
    /\ Len(train_labels) = 2 /\ train_data.len = 2
    /\ Len(test_labels) = 2 /\ test_data.len = 2

\* C7: a call that ends on a failure of the taxonomy (directory creation,
\* transport, status, file write or read, gzip) returns an Err; only an
\* out-of-bounds decode ends in a panic, and nothing else ends a call.
C7_FailuresAreReturned ==
    (ret # "none" /\ fail_kind # "none")
    => IF fail_kind = "oob" THEN ret = "Panic" ELSE ret = "Err"

\* C8: in a load call download_files completes, once, before any archive is
\* read; the training collections are assigned before a test archive is read;
\* and load returns Ok only after all three steps, with the four collections
\* holding what the four archives decode to.
C8_LoadOrder ==
    /\ pc \in {"create_dir", "files_loop"} => phases = <<>> /\ reads = <<>>
    /\ reads # <<>> => phases # <<>> /\ phases[1] = "download_files" /\ AllFilesExist
    /\ Cardinality({i \in 1..Len(phases) : phases[i] = "download_files"}) <= 1
    /\ pc = "load_train" => phases = <<"download_files">> /\ reads = <<>>
    /\ pc = "load_test" =>
          /\ phases = <<"download_files", "load_data(true)">>
          /\ reads = <<label_file(TRUE), image_file(TRUE)>>
          /\ train_labels = DecodedLabels(disk, TRUE)
          /\ train_data = DecodedImages(disk, TRUE)
    /\ (op = "load" /\ ret = "Ok") =>
          /\ phases = <<"download_files", "load_data(true)", "load_data(false)">>
          /\ reads = <<label_file(TRUE), image_file(TRUE), label_file(FALSE), image_file(FALSE)>>
          /\ Self = DecodedAll(disk)
    /\ (op = "load" /\ ret \in {"Err", "Panic"}) => Len(phases) < 3

\* a first load returned Ok after downloading all four archives
C8_Witness ==
    /\ op = "load"
    /\ ret = "Ok"
    /\ Len(gets) = 4
    /\ pre = new
    /\ train_data.len = 2
    /\ Len(test_labels) = 1

\* C9: a load that fails leaves the collections as they were before the
\* failing step: all four as at the start of the call when download_files or
\* the training split fails; the training pair newly decoded and the test
\* pair as at the start of the call when the test split fails.
C9_NoRollback ==
    (op = "load" /\ ret \in {"Err", "Panic"})
    => /\ fail_step \in {"fetch", "train", "test"}
       /\ fail_step \in {"fetch", "train"} => Self = pre
       /\ fail_step = "test" =>
             /\ train_labels = DecodedLabels(disk, TRUE)
             /\ train_data = DecodedImages(disk, TRUE)
             /\ test_labels = pre.test_labels
             /\ test_data = pre.test_data

\* a first load failed in the image decode of the test split, after the test
\* labels had been decoded
C9_Witness ==
    /\ op = "load"
    /\ ret = "Panic"
    /\ fail_step = "test"
    /\ fail_kind = "oob"
    /\ Len(reads) = 4
    /\ pre = new
    /\ train_labels # <<>>
    /\ test_labels = <<>>

\* C10: a download that fails on a transport error or on a status other than
\* 200 leaves no file, ends the call with an Err at that file, the files
\* after it neither checked nor fetched and the files before it on disk; in
\* every call the GETs issued are the files missing at the start of the
\* call, in order, as far as the call got, so the call after a failed one
\* starts with the file that failed.
C10_FailedDownload ==
    /\ (ret = "Err" /\ fail_kind \in {"transport", "status"}) =>
          /\ pc = "idle"
          /\ ~disk[fail_file].exists
          /\ gets # <<>> /\ gets[Len(gets)] = fail_file
          /\ \A i \in 1..4 : files[i] = fail_file =>
                /\ \A k \in 1..(i - 1) : disk[files[k]].exists
                /\ \A k \in (i + 1)..4 :
                      /\ files[k] \notin Range(gets) \cup skipped
                      /\ disk[files[k]].exists <=> files[k] \notin start_missing
    /\ IsPrefix(gets, InOrder(start_missing))
    /\ phases # <<>> => gets = InOrder(start_missing)
    /\ (prev_fail_file # "" /\ op # "none") =>
          /\ InOrder(start_missing)[1] = prev_fail_file
          /\ pc \notin {"create_dir", "files_loop"} => gets[1] = prev_fail_file

\* the call after one that failed at the second file has fetched that file
\* and the ones after it and completed
C10_Witness ==
    /\ prev_fail_file = files[2]
    /\ phases # <<>>
    /\ gets = <<files[2], files[3], files[4]>>
    /\ skipped = {files[1]}
====
